---------------------------- MODULE Spec2Model ----------------------------
(***************************************************************************)
(* State machine of the App component of src/index.tsx.                   *)
(*                                                                         *)
(* One action per event handler (a user event on a control the current    *)
(* render shows) and one per continuation of an async handler (the code   *)
(* after its await, run when the model API answers).  React applies all   *)
(* state updates of one handler or continuation before the next event, so *)
(* each is one atomic step.  A continuation only calls setters with       *)
(* constants, updater functions or values it captured before the await,   *)
(* so it is modelled on the current state and the request it answers.     *)
(*                                                                         *)
(* Requests in flight are the bag `pending`; a request records what the   *)
(* handler captured when it sent it.  The API answers a request with      *)
(* "ok" (a parseable response), "badjson" (a response whose text          *)
(* JSON.parse rejects, for the handlers that parse) or "fail" (the call   *)
(* rejects).  Generated content that only the render reads (story text,   *)
(* feedback strings, vocabulary list, dictionary entry, word of the day)  *)
(* is not kept; the text typed in the story, dictionary, writing,         *)
(* translation and chat forms and the speech transcript are inputs of     *)
(* the submit actions.  `last` is a history variable: the response        *)
(* handled by the last step, if the last step was a continuation.         *)
(***************************************************************************)
EXTENDS Integers, Sequences, FiniteSets, Bags, TLC

VARIABLES
  activeView, error, isLoading, isSubmitting, mounted,
  examState, examQuestions, currentQuestionIndex, userAnswers, currentAnswer,
  examResults,
  chat, chatHistory,
  translationTask, phrasalVerb, commonPhrase,
  popup, pending, last

vars == <<activeView, error, isLoading, isSubmitting, mounted,
          examState, examQuestions, currentQuestionIndex, userAnswers,
          currentAnswer, examResults, chat, chatHistory,
          translationTask, phrasalVerb, commonPhrase, popup, pending, last>>

examVars == <<examQuestions, currentQuestionIndex, userAnswers, currentAnswer,
              examResults>>
chatVars == <<chat, chatHistory>>
contentVars == <<translationTask, phrasalVerb, commonPhrase>>

-----------------------------------------------------------------------------
(* Bounds of the model *)

\* requests in flight at one time
MaxPending == 2
\* questions in a list the API returns at exam start
MaxQuestions == 2
\* chat sessions created in one behaviour
MaxChats == 2
\* entries of chatHistory
MaxHistory == 3

-----------------------------------------------------------------------------
(* Values *)

Views == {"home", "story", "vocabulary", "translation", "pronunciation",
          "conversation", "writingAnalysis", "phrasalVerbs", "phrases",
          "dictionary", "exams"}

GenericError == "An error occurred. Please try again."
CreateExamError == "Failed to create the exam. Please try again."
GradeExamError == "Failed to grade the exam. Please try again later."
Greeting == "Hello! What would you like to talk about today?"
TranslationFailed == "Translation failed."

\* text the user can have typed in a form field, "" for an empty field
Texts == {"", "text"}
\* text the user can have selected in the page, "" for no selection
Selections == {"", "cat", "dog"}
\* sentences the API returns for a translation task
Sentences == {"sentence1", "sentence2"}
\* answers the user can give to an exam question, "" for an empty field
Answers == {"", "a"}

\* the ids of the question lists the API can return at exam start:
\* sequential from 1, all the same id, and not starting at 1
Sequential(n) == [i \in 1..n |-> i]
Repeated(n) == [i \in 1..n |-> 1]
Shifted(n) == [i \in 1..n |-> i + 1]

\* what a question gives the render besides its id (questionSchema, lines
\* 384-393, requires id, type and text only): a multiple-choice question with
\* options, one without, and a question answered in a textarea
Choice == [type |-> "mcq", options |-> <<"a">>]
Bare == [type |-> "mcq", options |-> <<>>]
Written == [type |-> "writing", options |-> <<>>]
QuestionKinds == {Choice, Bare, Written}

\* the question list of given ids and kinds, and the list of one kind
Questions(ids, kinds) ==
  [i \in 1..Len(ids) |->
     [id |-> ids[i], type |-> kinds[i].type, options |-> kinds[i].options]]
Uniform(ids, kind) == Questions(ids, [i \in 1..Len(ids) |-> kind])

\* question lists the API can return at exam start
QuestionLists ==
  UNION {{Questions(ids, kinds) :
            ids \in {Sequential(n), Repeated(n), Shifted(n)},
            kinds \in [1..n -> QuestionKinds]} : n \in 0..MaxQuestions}

\* the response of the API to a popup translation request
Translation(selectedText) == "es:" \o selectedText
\* the response of a chat session to a message
Reply(message) == "re:" \o message
\* the response of the API to a translation check of a sentence
Feedback(sentence) == "feedback:" \o sentence
\* the response of the API to a grading request
Grading(questions, answers) == [questions |-> questions, answers |-> answers]
\* examResults before any grading
Null == [null |-> TRUE]
\* chat before any session is created
NoChat == 0

NoData == [none |-> TRUE]
Request(kind, data) == [kind |-> kind, data |-> data]

LoadingKinds == {"story", "pronunciation", "vocabulary", "translation",
                 "phrasalVerbs", "phrases", "examStart", "examGrade"}
SubmitKinds == {"storyCheck", "speech", "chat", "dictionary",
                "translationCheck", "writing"}
OtherKinds == {"wordOfTheDay", "popup"}
Kinds == LoadingKinds \cup SubmitKinds \cup OtherKinds

NoEvent == [kind |-> "none", outcome |-> "none"]
Event(kind, outcome) == [kind |-> kind, outcome |-> outcome]

Outstanding == BagCardinality(pending)
OutstandingOf(kinds) ==
  BagCardinality([r \in {q \in BagToSet(pending) : q.kind \in kinds} |-> pending[r]])
CanSend == Outstanding < MaxPending
Send(r) == pending (+) SetToBag({r})
Answered(r) == pending (-) SetToBag({r})


-----------------------------------------------------------------------------
(* Render: what the current state shows, which decides the enabled controls *)

\* renderExams, the three screens (lines 707-806)
ExamLoadingScreen == isLoading /\ examState # "results"
ExamResultsScreen == examState = "results" /\ examResults # Null /\ ~isLoading
ExamQuestionScreen ==
  /\ ~ExamLoadingScreen
  /\ examState = "in-progress"
  /\ Len(examQuestions) > 0
ExamSetupScreen == ~ExamLoadingScreen /\ examState = "setup"

\* examQuestions[currentQuestionIndex] is undefined and question.text throws
\* in the render: React unmounts the whole tree
RenderThrows ==
  /\ activeView = "exams"
  /\ ExamQuestionScreen
  /\ currentQuestionIndex >= Len(examQuestions)
Render == mounted' = (mounted /\ ~RenderThrows')

\* TranslationPopup renders nothing without popup.original
PopupShown == popup.original # ""
ClosedPopup == [text |-> "", loading |-> FALSE, original |-> ""]

-----------------------------------------------------------------------------
(* generateContent (lines 193-207): the error message after the call, given *)
(* how the API answered; the call returns null exactly on "fail"            *)

\* generateContent with a catch that forgets setError
generateContentSilent(outcome) == error

generateContent(outcome) == IF outcome = "fail" THEN GenericError ELSE error

Outcomes == {"ok", "fail"}
JsonOutcomes == {"ok", "badjson", "fail"}

-----------------------------------------------------------------------------
(* Handlers started by changeView and by the "next" buttons: the part up to *)
(* the await                                                                *)

generateStory ==
  /\ CanSend
  /\ isLoading' = TRUE
  /\ pending' = Send(Request("story", NoData))

generatePronunciationPrompt ==
  /\ CanSend
  /\ isLoading' = TRUE
  /\ pending' = Send(Request("pronunciation", NoData))

\* the chat is created synchronously: no request is sent
initializeChat ==
  /\ chat < MaxChats
  /\ isLoading' = FALSE
  /\ chat' = chat + 1
  /\ chatHistory' = <<[role |-> "model", text |-> Greeting, session |-> chat + 1]>>

generateVocabulary ==
  /\ CanSend
  /\ isLoading' = TRUE
  /\ pending' = Send(Request("vocabulary", NoData))

generateTranslationTask ==
  /\ CanSend
  /\ isLoading' = TRUE
  /\ translationTask' = [sentence |-> "", feedback |-> ""]
  /\ pending' = Send(Request("translation", NoData))

generatePhrasalVerb ==
  /\ CanSend
  /\ isLoading' = TRUE
  /\ phrasalVerb' = FALSE
  /\ pending' = Send(Request("phrasalVerbs", NoData))

generateCommonPhrase ==
  /\ CanSend
  /\ isLoading' = TRUE
  /\ commonPhrase' = FALSE
  /\ pending' = Send(Request("phrases", NoData))

\* changeView without the test `view !== 'exams'` of line 179: every navigation
\* item puts the exam back in setup
changeViewAbandoning(view) ==
  /\ mounted
  /\ error' = ""
  /\ activeView' = view
  /\ examState' = "setup"
  /\ CASE view = "story" ->
            generateStory /\ UNCHANGED <<chatVars, contentVars>>
       [] view = "pronunciation" ->
            generatePronunciationPrompt /\ UNCHANGED <<chatVars, contentVars>>
       [] view = "conversation" ->
            initializeChat /\ UNCHANGED <<pending, contentVars>>
       [] view = "vocabulary" ->
            generateVocabulary /\ UNCHANGED <<chatVars, contentVars>>
       [] view = "translation" ->
            generateTranslationTask /\ UNCHANGED <<chatVars, phrasalVerb, commonPhrase>>
       [] view = "phrasalVerbs" ->
            generatePhrasalVerb /\ UNCHANGED <<chatVars, translationTask, commonPhrase>>
       [] view = "phrases" ->
            generateCommonPhrase /\ UNCHANGED <<chatVars, translationTask, phrasalVerb>>
       [] OTHER ->
            UNCHANGED <<isLoading, pending, chatVars, contentVars>>
  /\ UNCHANGED <<isSubmitting, examVars, popup>>
  /\ last' = NoEvent
  /\ Render

\* the click handler of a navigation item or of a button of the home view
\* (lines 177-191); the mouseup of a mouse click is a step of handleMouseUp
changeView(view) ==
  /\ mounted
  /\ error' = ""
  /\ activeView' = view
  /\ examState' = IF view # "exams" THEN "setup" ELSE examState
  /\ CASE view = "story" ->
            generateStory /\ UNCHANGED <<chatVars, contentVars>>
       [] view = "pronunciation" ->
            generatePronunciationPrompt /\ UNCHANGED <<chatVars, contentVars>>
       [] view = "conversation" ->
            initializeChat /\ UNCHANGED <<pending, contentVars>>
       [] view = "vocabulary" ->
            generateVocabulary /\ UNCHANGED <<chatVars, contentVars>>
       [] view = "translation" ->
            generateTranslationTask /\ UNCHANGED <<chatVars, phrasalVerb, commonPhrase>>
       [] view = "phrasalVerbs" ->
            generatePhrasalVerb /\ UNCHANGED <<chatVars, translationTask, commonPhrase>>
       [] view = "phrases" ->
            generateCommonPhrase /\ UNCHANGED <<chatVars, translationTask, phrasalVerb>>
       [] OTHER ->
            UNCHANGED <<isLoading, pending, chatVars, contentVars>>
  /\ UNCHANGED <<isSubmitting, examVars, popup>>
  /\ last' = NoEvent
  /\ Render

\* "New List" (line 606), shown when not loading
newList ==
  /\ mounted /\ activeView = "vocabulary" /\ ~isLoading
  /\ generateVocabulary
  /\ UNCHANGED <<activeView, error, isSubmitting, examState, examVars, chatVars,
                 contentVars, popup>>
  /\ last' = NoEvent
  /\ Render

\* "Next Task" (line 633), shown when not loading
nextTask ==
  /\ mounted /\ activeView = "translation" /\ ~isLoading
  /\ generateTranslationTask
  /\ UNCHANGED <<activeView, error, isSubmitting, examState, examVars, chatVars,
                 phrasalVerb, commonPhrase, popup>>
  /\ last' = NoEvent
  /\ Render

\* "Next Verb" (line 680), shown when not loading and a verb is held
nextVerb ==
  /\ mounted /\ activeView = "phrasalVerbs" /\ ~isLoading /\ phrasalVerb
  /\ generatePhrasalVerb
  /\ UNCHANGED <<activeView, error, isSubmitting, examState, examVars, chatVars,
                 translationTask, commonPhrase, popup>>
  /\ last' = NoEvent
  /\ Render

\* "Next Phrase" (line 698), shown when not loading and a phrase is held
nextPhrase ==
  /\ mounted /\ activeView = "phrases" /\ ~isLoading /\ commonPhrase
  /\ generateCommonPhrase
  /\ UNCHANGED <<activeView, error, isSubmitting, examState, examVars, chatVars,
                 translationTask, phrasalVerb, popup>>
  /\ last' = NoEvent
  /\ Render

-----------------------------------------------------------------------------
(* Continuations of the loading handlers: the code after the await.  A      *)
(* JSON.parse that throws outside a try ends the handler there.             *)

\* the handler's isLoading after `if (response) parse; setIsLoading(false)`
LoadingAfterParse(outcome) == IF outcome = "badjson" THEN isLoading ELSE FALSE

Resumed(r, outcome) ==
  /\ mounted
  /\ r \in BagToSet(pending)
  /\ pending' = Answered(r)
  /\ last' = Event(r.kind, outcome)

generateWordOfTheDayResume(r, outcome) ==
  /\ r.kind = "wordOfTheDay" /\ outcome \in JsonOutcomes
  /\ Resumed(r, outcome)
  /\ error' = generateContent(outcome)
  /\ UNCHANGED <<activeView, isLoading, isSubmitting, examState, examVars,
                 chatVars, contentVars, popup>>
  /\ Render

generateStoryResume(r, outcome) ==
  /\ r.kind = "story" /\ outcome \in JsonOutcomes
  /\ Resumed(r, outcome)
  /\ error' = generateContent(outcome)
  /\ isLoading' = LoadingAfterParse(outcome)
  /\ UNCHANGED <<activeView, isSubmitting, examState, examVars, chatVars,
                 contentVars, popup>>
  /\ Render

generatePronunciationPromptResume(r, outcome) ==
  /\ r.kind = "pronunciation" /\ outcome \in Outcomes
  /\ Resumed(r, outcome)
  /\ error' = generateContent(outcome)
  /\ isLoading' = FALSE
  /\ UNCHANGED <<activeView, isSubmitting, examState, examVars, chatVars,
                 contentVars, popup>>
  /\ Render

generateVocabularyResume(r, outcome) ==
  /\ r.kind = "vocabulary" /\ outcome \in JsonOutcomes
  /\ Resumed(r, outcome)
  /\ error' = generateContent(outcome)
  /\ isLoading' = LoadingAfterParse(outcome)
  /\ UNCHANGED <<activeView, isSubmitting, examState, examVars, chatVars,
                 contentVars, popup>>
  /\ Render

generateTranslationTaskResume(r, outcome, sentence) ==
  /\ r.kind = "translation" /\ outcome \in Outcomes
  /\ Resumed(r, outcome)
  /\ error' = generateContent(outcome)
  /\ translationTask' = IF outcome = "ok"
                          THEN [sentence |-> sentence, feedback |-> ""]
                          ELSE translationTask
  /\ isLoading' = FALSE
  /\ UNCHANGED <<activeView, isSubmitting, examState, examVars, chatVars,
                 phrasalVerb, commonPhrase, popup>>
  /\ Render

generatePhrasalVerbResume(r, outcome) ==
  /\ r.kind = "phrasalVerbs" /\ outcome \in JsonOutcomes
  /\ Resumed(r, outcome)
  /\ error' = generateContent(outcome)
  /\ phrasalVerb' = IF outcome = "ok" THEN TRUE ELSE phrasalVerb
  /\ isLoading' = LoadingAfterParse(outcome)
  /\ UNCHANGED <<activeView, isSubmitting, examState, examVars, chatVars,
                 translationTask, commonPhrase, popup>>
  /\ Render

generateCommonPhraseResume(r, outcome) ==
  /\ r.kind = "phrases" /\ outcome \in JsonOutcomes
  /\ Resumed(r, outcome)
  /\ error' = generateContent(outcome)
  /\ commonPhrase' = IF outcome = "ok" THEN TRUE ELSE commonPhrase
  /\ isLoading' = LoadingAfterParse(outcome)
  /\ UNCHANGED <<activeView, isSubmitting, examState, examVars, chatVars,
                 translationTask, phrasalVerb, popup>>
  /\ Render

\* after the tree is unmounted the setters of a continuation change nothing
resumeUnmounted(r) ==
  /\ ~mounted
  /\ r \in BagToSet(pending)
  /\ pending' = Answered(r)
  /\ UNCHANGED <<activeView, error, isLoading, isSubmitting, mounted, examState,
                 examVars, chatVars, contentVars, popup, last>>

-----------------------------------------------------------------------------
(* Form submissions: each control is disabled while isSubmitting or while   *)
(* its field is empty; the field's text is the input of the action          *)

SubmittingAfterParse(outcome) == IF outcome = "badjson" THEN isSubmitting ELSE FALSE

checkStoryAnswer(storyAnswer) ==
  /\ mounted /\ activeView = "story" /\ ~isLoading
  /\ ~isSubmitting /\ storyAnswer # ""
  /\ CanSend
  /\ isSubmitting' = TRUE
  /\ pending' = Send(Request("storyCheck", NoData))
  /\ UNCHANGED <<activeView, error, isLoading, examState, examVars, chatVars,
                 contentVars, popup>>
  /\ last' = NoEvent
  /\ Render

checkStoryAnswerResume(r, outcome) ==
  /\ r.kind = "storyCheck" /\ outcome \in Outcomes
  /\ Resumed(r, outcome)
  /\ error' = generateContent(outcome)
  /\ isSubmitting' = FALSE
  /\ UNCHANGED <<activeView, isLoading, examState, examVars, chatVars,
                 contentVars, popup>>
  /\ Render

\* "Analyze Speech" (line 545) is shown when there is a transcript
analyzeSpeech(transcript) ==
  /\ mounted /\ activeView = "pronunciation"
  /\ ~isSubmitting /\ transcript # ""
  /\ CanSend
  /\ isSubmitting' = TRUE
  /\ pending' = Send(Request("speech", NoData))
  /\ UNCHANGED <<activeView, error, isLoading, examState, examVars, chatVars,
                 contentVars, popup>>
  /\ last' = NoEvent
  /\ Render

analyzeSpeechResume(r, outcome) ==
  /\ r.kind = "speech" /\ outcome \in Outcomes
  /\ Resumed(r, outcome)
  /\ error' = generateContent(outcome)
  /\ isSubmitting' = FALSE
  /\ UNCHANGED <<activeView, isLoading, examState, examVars, chatVars,
                 contentVars, popup>>
  /\ Render

sendChatMessage(chatMessage) ==
  /\ mounted /\ activeView = "conversation" /\ ~isLoading
  /\ ~isSubmitting /\ chatMessage # ""
  /\ chat # NoChat
  /\ Len(chatHistory) < MaxHistory
  /\ CanSend
  /\ chatHistory' = Append(chatHistory,
                           [role |-> "user", text |-> chatMessage, session |-> chat])
  /\ isSubmitting' = TRUE
  /\ pending' = Send(Request("chat", [session |-> chat, message |-> chatMessage]))
  /\ UNCHANGED <<activeView, error, isLoading, examState, examVars, chat,
                 contentVars, popup>>
  /\ last' = NoEvent
  /\ Render

\* chat.sendMessage is awaited outside any try: when it rejects the handler
\* ends there
sendChatMessageResume(r, outcome) ==
  /\ r.kind = "chat" /\ outcome \in Outcomes
  /\ Resumed(r, outcome)
  /\ IF outcome = "ok"
       THEN /\ chatHistory' = Append(chatHistory,
                                     [role |-> "model", text |-> Reply(r.data.message),
                                      session |-> r.data.session])
            /\ isSubmitting' = FALSE
       ELSE UNCHANGED <<chatHistory, isSubmitting>>
  /\ UNCHANGED <<activeView, error, isLoading, examState, examVars, chat,
                 contentVars, popup>>
  /\ Render

\* searchDictionary with a Search button that is not disabled while isSubmitting
searchDictionaryUnguarded(dictionaryWord) ==
  /\ mounted /\ activeView = "dictionary"
  /\ dictionaryWord # ""
  /\ CanSend
  /\ isSubmitting' = TRUE
  /\ pending' = Send(Request("dictionary", NoData))
  /\ UNCHANGED <<activeView, error, isLoading, examState, examVars, chatVars,
                 contentVars, popup>>
  /\ last' = NoEvent
  /\ Render

searchDictionary(dictionaryWord) ==
  /\ mounted /\ activeView = "dictionary"
  /\ ~isSubmitting /\ dictionaryWord # ""
  /\ CanSend
  /\ isSubmitting' = TRUE
  /\ pending' = Send(Request("dictionary", NoData))
  /\ UNCHANGED <<activeView, error, isLoading, examState, examVars, chatVars,
                 contentVars, popup>>
  /\ last' = NoEvent
  /\ Render

searchDictionaryResume(r, outcome) ==
  /\ r.kind = "dictionary" /\ outcome \in JsonOutcomes
  /\ Resumed(r, outcome)
  /\ error' = generateContent(outcome)
  /\ isSubmitting' = SubmittingAfterParse(outcome)
  /\ UNCHANGED <<activeView, isLoading, examState, examVars, chatVars,
                 contentVars, popup>>
  /\ Render

checkTranslation(userTranslation) ==
  /\ mounted /\ activeView = "translation" /\ ~isLoading
  /\ ~isSubmitting /\ userTranslation # ""
  /\ CanSend
  /\ isSubmitting' = TRUE
  /\ pending' = Send(Request("translationCheck",
                             [sentence |-> translationTask.sentence]))
  /\ UNCHANGED <<activeView, error, isLoading, examState, examVars, chatVars,
                 contentVars, popup>>
  /\ last' = NoEvent
  /\ Render

checkTranslationResume(r, outcome) ==
  /\ r.kind = "translationCheck" /\ outcome \in Outcomes
  /\ Resumed(r, outcome)
  /\ error' = generateContent(outcome)
  /\ translationTask' =
       IF outcome = "ok"
         THEN [translationTask EXCEPT !.feedback = Feedback(r.data.sentence)]
         ELSE translationTask
  /\ isSubmitting' = FALSE
  /\ UNCHANGED <<activeView, isLoading, examState, examVars, chatVars,
                 phrasalVerb, commonPhrase, popup>>
  /\ Render

\* analyzeWriting without setIsSubmitting(true)
analyzeWritingUnflagged(writingInput) ==
  /\ mounted /\ activeView = "writingAnalysis"
  /\ ~isSubmitting /\ writingInput # ""
  /\ CanSend
  /\ pending' = Send(Request("writing", NoData))
  /\ UNCHANGED <<activeView, error, isLoading, isSubmitting, examState, examVars,
                 chatVars, contentVars, popup>>
  /\ last' = NoEvent
  /\ Render

analyzeWriting(writingInput) ==
  /\ mounted /\ activeView = "writingAnalysis"
  /\ ~isSubmitting /\ writingInput # ""
  /\ CanSend
  /\ isSubmitting' = TRUE
  /\ pending' = Send(Request("writing", NoData))
  /\ UNCHANGED <<activeView, error, isLoading, examState, examVars, chatVars,
                 contentVars, popup>>
  /\ last' = NoEvent
  /\ Render

analyzeWritingResume(r, outcome) ==
  /\ r.kind = "writing" /\ outcome \in JsonOutcomes
  /\ Resumed(r, outcome)
  /\ error' = generateContent(outcome)
  /\ isSubmitting' = SubmittingAfterParse(outcome)
  /\ UNCHANGED <<activeView, isLoading, examState, examVars, chatVars,
                 contentVars, popup>>
  /\ Render

-----------------------------------------------------------------------------
(* Exam *)

\* "Start Exam" (line 802), on the setup screen
startExam ==
  /\ mounted /\ activeView = "exams" /\ ExamSetupScreen
  /\ ~isLoading
  /\ CanSend
  /\ isLoading' = TRUE
  /\ examQuestions' = <<>>
  /\ userAnswers' = <<>>
  /\ currentQuestionIndex' = 0
  /\ currentAnswer' = ""
  /\ examResults' = Null
  /\ pending' = Send(Request("examStart", NoData))
  /\ UNCHANGED <<activeView, error, isSubmitting, examState, chatVars,
                 contentVars, popup>>
  /\ last' = NoEvent
  /\ Render

startExamResume(r, outcome, questions) ==
  /\ r.kind = "examStart" /\ outcome \in JsonOutcomes
  /\ Resumed(r, outcome)
  /\ error' = IF outcome = "badjson" THEN CreateExamError ELSE generateContent(outcome)
  /\ examQuestions' = IF outcome = "ok" THEN questions ELSE examQuestions
  /\ examState' = IF outcome = "ok" THEN "in-progress" ELSE examState
  /\ isLoading' = FALSE
  /\ UNCHANGED <<activeView, isSubmitting, currentQuestionIndex, userAnswers,
                 currentAnswer, examResults, chatVars, contentVars, popup>>
  /\ Render

\* the controls the question screen renders for a question: the option
\* buttons of a multiple-choice question that has options (line 750), the
\* textarea of a writing, speaking or listening question (line 763)
OptionButtons(question) ==
  IF question.type = "mcq"
    THEN {question.options[i] : i \in 1..Len(question.options)}
    ELSE {}
HasTextarea(question) == question.type \in {"writing", "speaking", "listening"}

\* an option button or the textarea of the question screen (lines 756, 767);
\* the textarea's change event carries a text other than the one it shows
setCurrentAnswer(answer) ==
  /\ mounted /\ activeView = "exams" /\ ExamQuestionScreen
  /\ LET question == examQuestions[currentQuestionIndex + 1]
     IN  \/ answer \in OptionButtons(question)
         \/ HasTextarea(question) /\ answer # currentAnswer
  /\ currentAnswer' = answer
  /\ UNCHANGED <<activeView, error, isLoading, isSubmitting, examState,
                 examQuestions, currentQuestionIndex, userAnswers, examResults,
                 chatVars, contentVars, popup, pending>>
  /\ last' = NoEvent
  /\ Render

\* Array.prototype.find, then `?.answer || ''`
FindAnswer(answers, questionId) ==
  LET hits == SelectSeq(answers, LAMBDA a : a.questionId = questionId)
  IN  IF Len(hits) > 0 THEN hits[1].answer ELSE ""

\* the answer list without the filter of line 418: the new answer is appended
\* to every earlier entry
UpdatedAnswersUnfiltered ==
  Append(userAnswers,
         [questionId |-> examQuestions[currentQuestionIndex + 1].id,
          answer |-> currentAnswer])

\* the answer list handleNextQuestion builds (lines 417-418); the index is
\* 0-based in the code and sequences are 1-based here
UpdatedAnswers ==
  LET newAnswer == [questionId |-> examQuestions[currentQuestionIndex + 1].id,
                    answer |-> currentAnswer]
  IN  Append(SelectSeq(userAnswers,
                       LAMBDA a : a.questionId # newAnswer.questionId),
             newAnswer)

gradeExam(finalAnswers) ==
  /\ CanSend
  /\ isLoading' = TRUE
  /\ examState' = "results"
  /\ pending' = Send(Request("examGrade",
                             [questions |-> examQuestions, answers |-> finalAnswers]))

\* "Next Question" / "Finish & Grade Exam" (line 775), disabled while
\* currentAnswer is empty
handleNextQuestion ==
  /\ mounted /\ activeView = "exams" /\ ExamQuestionScreen
  /\ currentAnswer # ""
  /\ userAnswers' = UpdatedAnswers
  /\ IF currentQuestionIndex < Len(examQuestions) - 1
       THEN /\ currentQuestionIndex' = currentQuestionIndex + 1
            /\ currentAnswer' = FindAnswer(UpdatedAnswers,
                                           examQuestions[currentQuestionIndex + 2].id)
            /\ UNCHANGED <<isLoading, examState, pending>>
       ELSE /\ gradeExam(UpdatedAnswers)
            /\ UNCHANGED <<currentQuestionIndex, currentAnswer>>
  /\ UNCHANGED <<activeView, error, isSubmitting, examQuestions, examResults,
                 chatVars, contentVars, popup>>
  /\ last' = NoEvent
  /\ Render

gradeExamResume(r, outcome) ==
  /\ r.kind = "examGrade" /\ outcome \in JsonOutcomes
  /\ Resumed(r, outcome)
  /\ examResults' = IF outcome = "ok"
                      THEN Grading(r.data.questions, r.data.answers)
                      ELSE examResults
  /\ error' = IF outcome = "ok" THEN error ELSE GradeExamError
  /\ examState' = IF outcome = "ok" THEN examState ELSE "setup"
  /\ isLoading' = FALSE
  /\ UNCHANGED <<activeView, isSubmitting, examQuestions, currentQuestionIndex,
                 userAnswers, currentAnswer, chatVars, contentVars, popup>>
  /\ Render

\* "Take Another Exam" (line 738), on the results screen
takeAnotherExam ==
  /\ mounted /\ activeView = "exams" /\ ExamResultsScreen
  /\ examState' = "setup"
  /\ examResults' = Null
  /\ UNCHANGED <<activeView, error, isLoading, isSubmitting, examQuestions,
                 currentQuestionIndex, userAnswers, currentAnswer, chatVars,
                 contentVars, popup, pending>>
  /\ last' = NoEvent
  /\ Render

-----------------------------------------------------------------------------
(* Selection translation popup *)

MaxSelectionLength == 100

\* the document's mouseup listener (lines 142-167): the selected text, whether
\* the event's target is outside the popup element, whether the selection is
\* anchored in the main content, whether an input or textarea has the focus
handleMouseUp(selectedText, outsidePopup, inMain, inInput) ==
  /\ mounted
  /\ LET closed == IF PopupShown /\ outsidePopup THEN ClosedPopup ELSE popup
     IN  IF Len(selectedText) > 0 /\ Len(selectedText) < MaxSelectionLength /\ inMain
           THEN IF inInput
                  THEN popup' = closed /\ UNCHANGED pending
                  ELSE /\ CanSend
                       /\ popup' = [text |-> "", loading |-> TRUE,
                                    original |-> selectedText]
                       /\ pending' = Send(Request("popup", [text |-> selectedText]))
           ELSE popup' = closed /\ UNCHANGED pending
  /\ UNCHANGED <<activeView, error, isLoading, isSubmitting, examState, examVars,
                 chatVars, contentVars>>
  /\ last' = NoEvent
  /\ Render

handleMouseUpResume(r, outcome) ==
  /\ r.kind = "popup" /\ outcome \in Outcomes
  /\ Resumed(r, outcome)
  /\ popup' = IF outcome = "ok"
                THEN [popup EXCEPT !.text = Translation(r.data.text),
                                   !.loading = FALSE]
                ELSE [text |-> TranslationFailed, loading |-> FALSE, original |-> ""]
  /\ UNCHANGED <<activeView, error, isLoading, isSubmitting, examState, examVars,
                 chatVars, contentVars>>
  /\ Render

-----------------------------------------------------------------------------
(* The state after the first render and its effects: generateWordOfTheDay   *)
(* has sent its request (line 138)                                          *)

Init ==
  /\ activeView = "home"
  /\ error = ""
  /\ isLoading = FALSE
  /\ isSubmitting = FALSE
  /\ mounted = TRUE
  /\ examState = "setup"
  /\ examQuestions = <<>>
  /\ currentQuestionIndex = 0
  /\ userAnswers = <<>>
  /\ currentAnswer = ""
  /\ examResults = Null
  /\ chat = NoChat
  /\ chatHistory = <<>>
  /\ translationTask = [sentence |-> "", feedback |-> ""]
  /\ phrasalVerb = FALSE
  /\ commonPhrase = FALSE
  /\ popup = ClosedPopup
  /\ pending = SetToBag({Request("wordOfTheDay", NoData)})
  /\ last = NoEvent

Requests == BagToSet(pending)

Next ==
  \/ \E view \in Views : changeView(view)
  \/ newList
  \/ nextTask
  \/ nextVerb
  \/ nextPhrase
  \/ \E text \in Texts : checkStoryAnswer(text)
  \/ \E text \in Texts : analyzeSpeech(text)
  \/ \E text \in Texts : sendChatMessage(text)
  \/ \E text \in Texts : searchDictionary(text)
  \/ \E text \in Texts : checkTranslation(text)
  \/ \E text \in Texts : analyzeWriting(text)
  \/ startExam
  \/ \E answer \in Answers : setCurrentAnswer(answer)
  \/ handleNextQuestion
  \/ takeAnotherExam
  \/ \E sel \in Selections, outside, inMain, inInput \in BOOLEAN :
       handleMouseUp(sel, outside, inMain, inInput)
  \/ \E r \in Requests, outcome \in JsonOutcomes :
       \/ generateWordOfTheDayResume(r, outcome)
       \/ generateStoryResume(r, outcome)
       \/ generatePronunciationPromptResume(r, outcome)
       \/ generateVocabularyResume(r, outcome)
       \/ \E sentence \in Sentences : generateTranslationTaskResume(r, outcome, sentence)
       \/ generatePhrasalVerbResume(r, outcome)
       \/ generateCommonPhraseResume(r, outcome)
       \/ checkStoryAnswerResume(r, outcome)
       \/ analyzeSpeechResume(r, outcome)
       \/ sendChatMessageResume(r, outcome)
       \/ searchDictionaryResume(r, outcome)
       \/ checkTranslationResume(r, outcome)
       \/ analyzeWritingResume(r, outcome)
       \/ \E questions \in QuestionLists : startExamResume(r, outcome, questions)
       \/ gradeExamResume(r, outcome)
       \/ handleMouseUpResume(r, outcome)
  \/ \E r \in Requests : resumeUnmounted(r)

Spec == Init /\ [][Next]_vars

-----------------------------------------------------------------------------
(* The program restricted to the controls of one activity at a time: each   *)
(* specification below lets the user use a subset of the controls, so each  *)
(* of its behaviours is a behaviour of Spec                                 *)

\* the exam, with the navigation items that reach and leave it
ExamNavigation == {"home", "exams", "conversation"}
NextExam ==
  \/ \E view \in ExamNavigation : changeView(view)
  \/ startExam
  \/ \E answer \in Answers : setCurrentAnswer(answer)
  \/ handleNextQuestion
  \/ takeAnotherExam
  \/ \E r \in Requests, outcome \in JsonOutcomes :
       \/ generateWordOfTheDayResume(r, outcome)
       \/ \E questions \in QuestionLists : startExamResume(r, outcome, questions)
       \/ gradeExamResume(r, outcome)
  \/ \E r \in Requests : resumeUnmounted(r)

SpecExam == Init /\ [][NextExam]_vars

\* every activity that calls generateContent and sets a busy flag, without
\* answering exam questions; one sentence and one question list from the API
BusyViews == Views \ {"conversation"}
NextBusy ==
  \/ \E view \in BusyViews : changeView(view)
  \/ newList
  \/ nextTask
  \/ nextVerb
  \/ nextPhrase
  \/ \E text \in Texts : checkStoryAnswer(text)
  \/ \E text \in Texts : analyzeSpeech(text)
  \/ \E text \in Texts : searchDictionary(text)
  \/ \E text \in Texts : checkTranslation(text)
  \/ \E text \in Texts : analyzeWriting(text)
  \/ startExam
  \/ \E r \in Requests, outcome \in JsonOutcomes :
       \/ generateWordOfTheDayResume(r, outcome)
       \/ generateStoryResume(r, outcome)
       \/ generatePronunciationPromptResume(r, outcome)
       \/ generateVocabularyResume(r, outcome)
       \/ generateTranslationTaskResume(r, outcome, "sentence1")
       \/ generatePhrasalVerbResume(r, outcome)
       \/ generateCommonPhraseResume(r, outcome)
       \/ checkStoryAnswerResume(r, outcome)
       \/ analyzeSpeechResume(r, outcome)
       \/ searchDictionaryResume(r, outcome)
       \/ checkTranslationResume(r, outcome)
       \/ analyzeWritingResume(r, outcome)
       \/ startExamResume(r, outcome, Uniform(Sequential(1), Written))

SpecBusy == Init /\ [][NextBusy]_vars

\* the conversation, with the navigation items that reach and leave it
ChatNavigation == {"home", "conversation"}
NextChat ==
  \/ \E view \in ChatNavigation : changeView(view)
  \/ \E text \in Texts : sendChatMessage(text)
  \/ \E r \in Requests, outcome \in JsonOutcomes :
       \/ generateWordOfTheDayResume(r, outcome)
       \/ sendChatMessageResume(r, outcome)

SpecChat == Init /\ [][NextChat]_vars

\* the selection popup on the home view
NextPopup ==
  \/ \E sel \in Selections, outside, inMain, inInput \in BOOLEAN :
       handleMouseUp(sel, outside, inMain, inInput)
  \/ \E view \in {"home", "dictionary"} : changeView(view)
  \/ \E r \in Requests, outcome \in JsonOutcomes :
       \/ generateWordOfTheDayResume(r, outcome)
       \/ handleMouseUpResume(r, outcome)

SpecPopup == Init /\ [][NextPopup]_vars

\* the six forms that set isSubmitting, with the navigation items of their views
SubmitViews == {"home", "story", "pronunciation", "conversation", "dictionary",
                "translation", "writingAnalysis"}
NextSubmit ==
  \/ \E view \in SubmitViews : changeView(view)
  \/ \E text \in Texts : checkStoryAnswer(text)
  \/ \E text \in Texts : analyzeSpeech(text)
  \/ \E text \in Texts : sendChatMessage(text)
  \/ \E text \in Texts : searchDictionary(text)
  \/ \E text \in Texts : checkTranslation(text)
  \/ \E text \in Texts : analyzeWriting(text)
  \/ \E r \in Requests, outcome \in JsonOutcomes :
       \/ generateWordOfTheDayResume(r, outcome)
       \/ generateStoryResume(r, outcome)
       \/ generatePronunciationPromptResume(r, outcome)
       \/ generateTranslationTaskResume(r, outcome, "sentence1")
       \/ checkStoryAnswerResume(r, outcome)
       \/ analyzeSpeechResume(r, outcome)
       \/ sendChatMessageResume(r, outcome)
       \/ searchDictionaryResume(r, outcome)
       \/ checkTranslationResume(r, outcome)
       \/ analyzeWritingResume(r, outcome)

SpecSubmit == Init /\ [][NextSubmit]_vars

\* the translation activity, with every sentence the API can return
TranslationNavigation == {"home", "translation"}
NextTranslation ==
  \/ \E view \in TranslationNavigation : changeView(view)
  \/ nextTask
  \/ \E text \in Texts : checkTranslation(text)
  \/ \E r \in Requests, outcome \in Outcomes :
       \/ generateWordOfTheDayResume(r, outcome)
       \/ \E sentence \in Sentences :
            generateTranslationTaskResume(r, outcome, sentence)
       \/ checkTranslationResume(r, outcome)

SpecTranslation == Init /\ [][NextTranslation]_vars

\* the exam for a user who opens the exams view and stays on it; every exam
\* request is eventually answered (the promise of generateContent settles),
\* and the user keeps typing an answer and pressing the button of the
\* question screen
startExamResponse ==
  \E r \in Requests, outcome \in JsonOutcomes, questions \in QuestionLists :
    startExamResume(r, outcome, questions)
gradeExamResponse ==
  \E r \in Requests, outcome \in JsonOutcomes : gradeExamResume(r, outcome)
NextExamStay ==
  \/ changeView("exams")
  \/ startExam
  \/ \E answer \in Answers : setCurrentAnswer(answer)
  \/ handleNextQuestion
  \/ takeAnotherExam
  \/ \E r \in Requests, outcome \in JsonOutcomes :
       generateWordOfTheDayResume(r, outcome)
  \/ startExamResponse
  \/ gradeExamResponse

SpecExamFair ==
  /\ Init /\ [][NextExamStay]_vars
  /\ WF_vars(startExamResponse)
  /\ WF_vars(gradeExamResponse)
  /\ WF_vars(setCurrentAnswer("a"))
  /\ SF_vars(handleNextQuestion)

\* the exam with the navigation items that reach and leave it, for the
\* question lists that can be answered: non-empty, with sequential ids or
\* with one id repeated, all with option buttons or all with a textarea
AnswerableLists ==
  UNION {{Uniform(ids, kind) :
            ids \in {Sequential(n), Repeated(n)},
            kind \in {Choice, Written}} : n \in 1..MaxQuestions}
NextAnswers ==
  \/ \E view \in ExamNavigation : changeView(view)
  \/ startExam
  \/ \E answer \in Answers : setCurrentAnswer(answer)
  \/ handleNextQuestion
  \/ takeAnotherExam
  \/ \E r \in Requests, outcome \in JsonOutcomes :
       \/ generateWordOfTheDayResume(r, outcome)
       \/ \E questions \in AnswerableLists : startExamResume(r, outcome, questions)
       \/ gradeExamResume(r, outcome)
  \/ \E r \in Requests : resumeUnmounted(r)

SpecAnswers == Init /\ [][NextAnswers]_vars

\* the exam with every navigation item: the activities of the other views
\* answer with success, the API returns the longest sequential question list,
\* and the word-of-the-day request stays outstanding
NextViews ==
  \/ \E view \in Views : changeView(view)
  \/ startExam
  \/ \E answer \in Answers : setCurrentAnswer(answer)
  \/ handleNextQuestion
  \/ takeAnotherExam
  \/ \E r \in Requests :
       \/ generateStoryResume(r, "ok")
       \/ generatePronunciationPromptResume(r, "ok")
       \/ generateVocabularyResume(r, "ok")
       \/ generateTranslationTaskResume(r, "ok", "sentence1")
       \/ generatePhrasalVerbResume(r, "ok")
       \/ generateCommonPhraseResume(r, "ok")
       \/ startExamResume(r, "ok", Uniform(Sequential(MaxQuestions), Written))
       \/ \E outcome \in Outcomes : gradeExamResume(r, outcome)

SpecViews == Init /\ [][NextViews]_vars

-----------------------------------------------------------------------------
(* Claims *)

\* C1 as stated: at every moment at most one request to the model API is
\* outstanding, counting requests from every source.
C1_OneOutstandingRequest == Outstanding <= 1

\* C1 as amended: at every moment at most one request of the forms that set
\* isSubmitting (story check, speech analysis, chat message, dictionary
\* search, translation check, writing analysis) is outstanding; requests of
\* the other sources can be outstanding at the same time.
C1_OneSubmitOutstanding == OutstandingOf(SubmitKinds) <= 1

\* a form request is outstanding together with a request of another source
C1_Witness ==
  /\ OutstandingOf(SubmitKinds) = 1
  /\ OutstandingOf(LoadingKinds \cup OtherKinds) >= 1

\* C2: examState changes only setup -> in-progress, in-progress -> results,
\* or back to setup.
C2_ExamStateOrder ==
  [][examState' # examState =>
       \/ examState = "setup" /\ examState' = "in-progress"
       \/ examState = "in-progress" /\ examState' = "results"
       \/ examState' = "setup"]_vars

\* C3: whenever examState becomes in-progress the index is 0, no answer is
\* collected and the answer field is empty; while it stays in-progress the
\* question list does not change and the index only steps by one.
C3_SequentialDelivery ==
  [][/\ (examState # "in-progress" /\ examState' = "in-progress") =>
          /\ currentQuestionIndex' = 0
          /\ userAnswers' = <<>>
          /\ currentAnswer' = ""
     /\ (examState = "in-progress" /\ examState' = "in-progress") =>
          /\ examQuestions' = examQuestions
          /\ currentQuestionIndex' \in {currentQuestionIndex, currentQuestionIndex + 1}]_vars

\* the entries of an answer list for a question id
EntriesFor(answers, questionId) ==
  Len(SelectSeq(answers, LAMBDA a : a.questionId = questionId))

\* C4: the answer list of every grading request has exactly one entry for
\* every question of the list it was sent with, and as many entries as there
\* are questions.
C4_AnswersComplete ==
  \A r \in Requests :
    r.kind = "examGrade" =>
      /\ Len(r.data.answers) = Len(r.data.questions)
      /\ \A i \in 1..Len(r.data.questions) :
           EntriesFor(r.data.answers, r.data.questions[i].id) = 1

GradeRequests == OutstandingOf({"examGrade"})

\* C5: a grading request is sent only from the question screen at the last
\* index, when every question of the list has an answer, it carries the
\* question list and the collected answers, and entering results sends
\* exactly one.
C5_SingleBatchGrading ==
  [][/\ GradeRequests' > GradeRequests =>
          /\ examState = "in-progress"
          /\ currentQuestionIndex = Len(examQuestions) - 1
          /\ \A i \in 1..Len(examQuestions) :
               EntriesFor(userAnswers', examQuestions[i].id) >= 1
          /\ pending' = Send(Request("examGrade",
                                     [questions |-> examQuestions,
                                      answers |-> userAnswers']))
     /\ (examState # "results" /\ examState' = "results") =>
          GradeRequests' = GradeRequests + 1]_vars

\* the busy flag an activity sets
C6Loading == {"story", "pronunciation", "vocabulary", "translation",
              "phrasalVerbs", "phrases", "examStart"}
C6Submit == {"storyCheck", "speech", "dictionary", "translationCheck", "writing"}

\* C7: right after a failed chat request isSubmitting is false and an error
\* message is shown.
C7_ChatFailureAllowsRetry ==
  last = Event("chat", "fail") => (~isSubmitting /\ error # "")

\* C8: right after a failed grading (the call failed or the response did not
\* parse) the grading error is shown, the exam is back in setup, there are no
\* results and isLoading is false.
C8_GradingFailure ==
  (last.kind = "examGrade" /\ last.outcome \in {"fail", "badjson"}) =>
    /\ error = GradeExamError
    /\ examState = "setup"
    /\ examResults = Null
    /\ ~isLoading

\* C9: chatHistory starts with the greeting, its roles alternate, and every
\* model reply answers the user message before it, in the session the history
\* belongs to.
C9_ChatAlternates ==
  \A i \in 1..Len(chatHistory) :
    /\ i = 1 => (chatHistory[i].role = "model" /\ chatHistory[i].text = Greeting)
    /\ i > 1 => chatHistory[i].role # chatHistory[i - 1].role
    /\ (i > 1 /\ chatHistory[i].role = "model") =>
         /\ chatHistory[i].text = Reply(chatHistory[i - 1].text)
         /\ chatHistory[i].session = chatHistory[1].session

\* C10: a popup that is shown and not loading shows the translation of the
\* selection it names.
C10_PopupShowsOwnTranslation ==
  (PopupShown /\ ~popup.loading) => popup.text = Translation(popup.original)

\* C11: right after a failed selection-translation request the popup is
\* rendered, is not loading and carries the text 'Translation failed.'.
C11_FailedTranslationShown ==
  last = Event("popup", "fail") =>
    /\ PopupShown
    /\ ~popup.loading
    /\ popup.text = TranslationFailed

\* C12: whenever the exam is in progress with a non-empty question list, the
\* index names a question of the list: 0 <= currentQuestionIndex <
\* examQuestions.length.
C12_IndexInRange ==
  (examState = "in-progress" /\ Len(examQuestions) > 0) =>
    (0 <= currentQuestionIndex /\ currentQuestionIndex < Len(examQuestions))


\* an exam has been begun: its question request is outstanding
ExamBegun == OutstandingOf({"examStart"}) > 0
\* the two ends C13 names
ExamEnded ==
  \/ examState = "results" /\ examResults # Null /\ ~isLoading
  \/ examState = "setup" /\ error # ""

\* C13: under fairness every exam begun with startExam eventually reaches
\* results (with examResults set and isLoading false) or setup with an error
\* message, whatever question list the response carries.
C13_ExamEnds == ExamBegun ~> ExamEnded


\* the requests of the exam: question generation and grading
ExamKinds == {"examStart", "examGrade"}

\* C14: at most one exam request (question generation or grading) is
\* outstanding at any time.
C14_OneExamRequest == OutstandingOf(ExamKinds) <= 1


\* C15: the results on the results screen are the response to the grading
\* request of the exam just completed, the one sent with the questions and
\* answers the state holds.
C15_ResultsOfThisExam ==
  (activeView = "exams" /\ ExamResultsScreen) =>
    examResults = Grading(examQuestions, userAnswers)


\* C16: isLoading is true exactly when at least one request of the handlers
\* that set it (story, pronunciation prompt, vocabulary, translation task,
\* phrasal verb, phrase, exam start, exam grading) is outstanding.
C16_LoadingIffOutstanding ==
  mounted => (isLoading <=> OutstandingOf(LoadingKinds) > 0)


\* the outstanding requests of the forms that set isSubmitting
SubmitOutstanding == OutstandingOf(SubmitKinds)

\* C17: a form request (story check, speech analysis, chat message,
\* dictionary search, translation check, writing analysis) starts only while
\* isSubmitting is false and none is outstanding, and it sets isSubmitting;
\* isSubmitting becomes false only in a step that completes such a request;
\* so at most one of them is outstanding.
C17_SubmitFlagGuards ==
  [][/\ SubmitOutstanding' > SubmitOutstanding =>
          (~isSubmitting /\ SubmitOutstanding = 0 /\ isSubmitting')
     /\ (isSubmitting /\ ~isSubmitting') => SubmitOutstanding' < SubmitOutstanding
     /\ SubmitOutstanding' <= 1]_vars

\* a form request stays outstanding, with isSubmitting true, across the
\* response to a loading request
C17_Witness ==
  /\ SubmitOutstanding = 1 /\ isSubmitting
  /\ last.kind \in LoadingKinds


\* C18: the feedback the translation view shows is the feedback for the
\* sentence it shows, the one held in translationTask.sentence.
C18_FeedbackOfCurrentSentence ==
  (activeView = "translation" /\ ~isLoading /\ translationTask.feedback # "") =>
    translationTask.feedback = Feedback(translationTask.sentence)


\* the view whose activity sends a request of a kind ("none" for the popup,
\* which belongs to no view)
ViewOfKind(kind) ==
  CASE kind \in {"story", "storyCheck"} -> "story"
    [] kind \in {"pronunciation", "speech"} -> "pronunciation"
    [] kind = "chat" -> "conversation"
    [] kind = "dictionary" -> "dictionary"
    [] kind = "vocabulary" -> "vocabulary"
    [] kind \in {"translation", "translationCheck"} -> "translation"
    [] kind = "writing" -> "writingAnalysis"
    [] kind = "phrasalVerbs" -> "phrasalVerbs"
    [] kind = "phrases" -> "phrases"
    [] kind \in {"examStart", "examGrade"} -> "exams"
    [] kind = "wordOfTheDay" -> "home"
    [] OTHER -> "none"

\* C19: the error message is non-empty only if the most recently completed
\* request of the current view failed: right after a request of the current
\* view has succeeded, no error is displayed.
C19_ErrorOnlyAfterFailure ==
  (last.outcome = "ok" /\ ViewOfKind(last.kind) = activeView) => error = ""


\* C20: whenever another view than the exams is active, examState is 'setup'.
C20_ExamOnlyOnExamsView ==
  activeView # "exams" => examState = "setup"


\* C21: userAnswers never holds two entries with the same questionId, and
\* every entry it holds has a non-empty answer.
C21_AnswersDistinct ==
  /\ \A i, j \in 1..Len(userAnswers) :
       i # j => userAnswers[i].questionId # userAnswers[j].questionId
  /\ \A i \in 1..Len(userAnswers) : userAnswers[i].answer # ""

\* both questions of a list that repeats an id have been answered: the entry
\* of the first was removed when the second was appended
C21_Witness ==
  /\ examState = "results"
  /\ Len(examQuestions) = 2 /\ examQuestions[1].id = examQuestions[2].id
  /\ Len(userAnswers) = 1
  /\ userAnswers[1] = [questionId |-> examQuestions[2].id, answer |-> "a"]


\* C22: changeView('exams') changes only error and activeView: it leaves the
\* exam's state, the busy flags and every content unchanged and sends no
\* request; changeView to any other view sets examState to 'setup' and leaves
\* examQuestions, userAnswers and currentQuestionIndex unchanged.
C22_ChangeViewFrame ==
  [][/\ changeView("exams") =>
          UNCHANGED <<examState, examQuestions, currentQuestionIndex,
                      userAnswers, currentAnswer, examResults, pending,
                      isLoading, isSubmitting, chatVars, contentVars, popup>>
     /\ \A view \in Views \ {"exams"} :
          changeView(view) =>
            /\ examState' = "setup"
            /\ UNCHANGED <<examQuestions, userAnswers, currentQuestionIndex>>]_vars

\* the user left the exams view at the second question and came back: the
\* exam is in setup, the questions, the answer given and the index are kept
C22_Witness ==
  /\ activeView = "exams" /\ examState = "setup" /\ error = ""
  /\ Len(examQuestions) >= 2
  /\ currentQuestionIndex = 1
  /\ Len(userAnswers) = 1


\* the control of an activity's view that starts the operation is rendered
\* and not disabled (its field, if it has one, holding a text): New List
\* (line 606), Next Task (line 633), Next Verb (lines 672-680), Next Phrase
\* (lines 690-698), Start Exam (line 802), the forms (lines 525, 545, 578,
\* 626, 649); story and pronunciation prompt start from the navigation only
C6Control(kind) ==
  CASE kind \in {"vocabulary", "translation"} -> ~isLoading
    [] kind = "phrasalVerbs" -> ~isLoading /\ phrasalVerb
    [] kind = "phrases" -> ~isLoading /\ commonPhrase
    [] kind = "examStart" -> ExamSetupScreen
    [] kind \in {"storyCheck", "translationCheck"} -> ~isLoading /\ ~isSubmitting
    [] kind \in {"speech", "dictionary", "writing"} -> ~isSubmitting
    [] OTHER -> TRUE

\* what the render of a control asks besides the flag its operation set
C6OtherConditions(kind) ==
  CASE kind = "phrasalVerbs" -> phrasalVerb
    [] kind = "phrases" -> commonPhrase
    [] kind = "examStart" -> examState = "setup"
    [] kind \in {"storyCheck", "translationCheck"} -> ~isLoading
    [] OTHER -> TRUE

\* C6 as stated: right after a failed request of an activity that calls
\* generateContent the error message is the generic string, the flag the
\* activity set is false, and the control of the activity's view that starts
\* the operation is enabled again.
C6_ControlEnabledAgain ==
  (last.outcome = "fail" /\ last.kind \in C6Loading \cup C6Submit) =>
    /\ error = GenericError
    /\ last.kind \in C6Loading => ~isLoading
    /\ last.kind \in C6Submit => ~isSubmitting
    /\ activeView = ViewOfKind(last.kind) => C6Control(last.kind)

\* C6 as amended: right after a failed request of an activity that calls
\* generateContent the error message is the generic string and the flag the
\* activity set is false; the control of the activity's view that starts the
\* operation is enabled again when the other conditions of its render hold:
\* an item is held (Next Verb, Next Phrase), isLoading is false (Check Answer,
\* Check Translation), examState is 'setup' (Start Exam).
C6_FailureFreesFlag ==
  (last.outcome = "fail" /\ last.kind \in C6Loading \cup C6Submit) =>
    /\ error = GenericError
    /\ last.kind \in C6Loading => ~isLoading
    /\ last.kind \in C6Submit => ~isSubmitting
    /\ (activeView = ViewOfKind(last.kind) /\ C6OtherConditions(last.kind)) =>
         C6Control(last.kind)

\* a translation check has just failed on the translation view with the task
\* shown: the Check Translation form is enabled again
C6_Witness ==
  /\ last = Event("translationCheck", "fail")
  /\ activeView = "translation" /\ ~isLoading
  /\ error = GenericError /\ ~isSubmitting

=============================================================================
